---- MODULE Spec2Model ----
(***************************************************************************)
(* Collaborative map of routerlicious (src/routerlicious/src/api/map.ts).  *)
(*                                                                         *)
(* Two instances of the class Map share one document: r1 is made by        *)
(* MapExtension.create (local until attach), r2 by MapExtension.load (its  *)
(* constructor starts load).  One nested collaborative object, n1, is      *)
(* created locally next to r1 and may be stored in the map by r1.  The     *)
(* delta transport, the sequencer and the object storage are the external  *)
(* collaborators of the class: a connect that assigns a client id and      *)
(* reports whether the object existed, a totally ordered stream of         *)
(* sequenced messages, and one snapshot blob per document.                 *)
(***************************************************************************)
EXTENDS Integers, Sequences, FiniteSets, TLC

\* ---------------------------------------------------------------- bounds
MaxCalls == 3        \* calls made by the users of the replicas (set, delete,
                     \* clear, attach, snapshot) and messages of other clients

\* ---------------------------------------------------------------- inputs
Replicas == {"r1", "r2"}
Creator == "r1"      \* new Map(id)
Loader == "r2"       \* new Map(id, services, registry)
Keys == {"a", "b"}
MapId == "map"
NestedId == "n1"
ForeignClient == 0

VARIABLES
    data,                   \* this.data: key -> IMapValue, or Undefined
    localOps,               \* this.localOps
    sequenceNumber,         \* this.sequenceNumber
    minimumSequenceNumber,  \* this.minimumSequenceNumber
    clientSequenceNumber,   \* this.clientSequenceNumber
    connection,             \* this.connection
    deltaManager,           \* this.deltaManager
    services,               \* this.services is set
    collaborativeObjects,   \* ids cached in this.collaborativeObjects
    loading,                \* progress of this.loadingP
    attachPending,          \* attach() calls suspended in connect
    waiting,                \* submit() calls suspended in the nested attach
    nestedConnection,       \* connections assigned to the nested object
    stream,                 \* the sequencer's total order
    created,                \* object ids the transport has created
    connects,               \* connections the transport has opened on the map
    calls,                  \* calls made so far by the users of the replicas
    storage,                \* blob held by the object storage service
    last                    \* the handler that ran last, and what it returned

vars == << data, localOps, sequenceNumber, minimumSequenceNumber,
           clientSequenceNumber, connection, deltaManager, services,
           collaborativeObjects, loading, attachPending, waiting,
           nestedConnection, stream, created, connects, calls, storage, last >>

\* ---------------------------------------------------------------- values
Undefined == [type |-> "Undefined", value |-> ""]
NoKey == ""
NoConnection == [clientId |-> -1, existing |-> FALSE]
NoDeltaManager == [clientId |-> -1, baseSequenceNumber |-> -1]
NoBlob == [sequenceNumber |-> -1, snapshot |-> {}, shared |-> "none"]
NoOp == [type |-> "none", key |-> NoKey, value |-> Undefined]
NoUserValue == [kind |-> "undefined", v |-> ""]

OperationType == "op"

PlainValue(v) == [type |-> "Plain", value |-> v]
CollaborativeValue(id) == [type |-> "Collaborative", value |-> id]

SetOp(k, v) == [type |-> "set", key |-> k, value |-> v]
DeleteOp(k) == [type |-> "delete", key |-> k, value |-> Undefined]
ClearOp == [type |-> "clear", key |-> NoKey, value |-> Undefined]

EmptyData == [k \in Keys |-> Undefined]

\* What the callers pass to set() and delete(): plain payloads and, next to
\* the creator, the nested collaborative object.
SetInputs(r) ==
    IF r = Creator
    THEN { << "a", [kind |-> "plain", v |-> "x"] >>,
           << "b", [kind |-> "object", v |-> NestedId] >> }
    ELSE { << "a", [kind |-> "plain", v |-> "y"] >> }

DeleteInputs(r) == {"a"}

\* set(), the conversion of the caller's value to the stored form.
OperationValue(uv) ==
    IF uv.kind = "object" THEN CollaborativeValue(uv.v) ELSE PlainValue(uv.v)

\* get(): what the caller reads back for key k.
Get(r, k) ==
    IF data[r][k] = Undefined THEN NoUserValue
    ELSE IF data[r][k].type = "Collaborative"
         THEN IF data[r][k].value \in collaborativeObjects[r]
              THEN [kind |-> "object", v |-> data[r][k].value]
              ELSE [kind |-> "loaded", v |-> data[r][k].value]
         ELSE [kind |-> "plain", v |-> data[r][k].value]

\* ------------------------------------------------------ map primitives
Event(name, key, d) == [name |-> name, key |-> key, data |-> d]

Result(d, ev, err) == [data |-> d, events |-> ev, error |-> err]

setCoreNoStore(d, key, value) ==
    Result(d, << Event("valueChanged", key, d) >>, "none")

setCore(d, key, value) ==
    LET d2 == [d EXCEPT ![key] = value]
    IN Result(d2, << Event("valueChanged", key, d2) >>, "none")

clearCore(d) ==
    Result(EmptyData, << Event("clear", NoKey, EmptyData) >>, "none")

deleteCoreStrict(d, key) ==
    IF d[key] = Undefined
    THEN Result(d, << >>, "KeyError")
    ELSE LET d2 == [d EXCEPT ![key] = Undefined]
         IN Result(d2, << Event("valueChanged", key, d2) >>, "none")

deleteCore(d, key) ==
    LET d2 == [d EXCEPT ![key] = Undefined]
    IN Result(d2, << Event("valueChanged", key, d2) >>, "none")

processOperation(d, op) ==
    CASE op.type = "clear" -> clearCore(d)
      [] op.type = "delete" -> deleteCore(d, op.key)
      [] op.type = "set" -> setCore(d, op.key, op.value)
      [] OTHER -> Result(d, << >>, "UnknownOperation")

\* ------------------------------------------------------------ transport
\* The low-water mark the sequencer stamps on the message it appends to s.
ServerMinimum(s) == Len(s)

Sequenced(s, clientId, type, message, origin, via, nestedLocal) ==
    [ sequenceNumber |-> Len(s) + 1,
      minimumSequenceNumber |-> ServerMinimum(s),
      clientId |-> clientId,
      type |-> type,
      clientSequenceNumber |-> message.clientSequenceNumber,
      referenceSequenceNumber |-> message.referenceSequenceNumber,
      op |-> message.op,
      origin |-> origin,
      via |-> via,
      nestedLocal |-> nestedLocal ]

\* deltaManager.submitOp(message): the message reaches the sequencer.
submitOp(ss, dm, message, origin, via, nestedLocal) ==
    IF dm = NoDeltaManager
    THEN [ss EXCEPT !.error = "TypeError"]
    ELSE [ss EXCEPT !.stream =
              Append(@, Sequenced(@, dm.clientId, OperationType, message,
                                  origin, via, nestedLocal))]

submitNoAttach(r, objects, ss, message, dm, via) ==
    submitOp(ss, dm, message, r, via, nestedConnection = 0)

\* The part of submit() that runs before it returns to its caller.
submit(r, objects, ss, message, dm, via) ==
    IF message.op.type = "set" /\ message.op.value.type = "Collaborative"
    THEN IF message.op.value.value \notin objects
         THEN [ss EXCEPT !.error = "TypeError"]
         ELSE IF nestedConnection = 0
              THEN [ss EXCEPT !.waiting =
                        Append(@, [message |-> message, via |-> via])]
              ELSE submitOp(ss, dm, message, r, via, nestedConnection = 0)
    ELSE submitOp(ss, dm, message, r, via, nestedConnection = 0)

\* attach(), the loop over this.localOps.
RECURSIVE submitAll(_, _, _, _)
submitAll(r, ss, ops, dm) ==
    IF ops = << >> THEN ss
    ELSE submitAll(r, submit(r, collaborativeObjects[r], ss, Head(ops), dm, "attach"),
                   Tail(ops), dm)

SubmitState(r) == [stream |-> stream, waiting |-> waiting[r], error |-> "none"]

\* ------------------------------------------------------------- snapshot
\* The blob names in `shared` the replica whose this.data is the very object
\* it holds, or none when it holds an object of its own.
ToBlob(seq, d) ==
    [ sequenceNumber |-> seq,
      snapshot |-> {<< k, d[k] >> : k \in {j \in Keys : d[j] # Undefined}},
      shared |-> "none" ]

cloneSame(r, d) == [object |-> r, slots |-> d]

\* _.clone(this.data): a new object that holds the slots of d.
clone(r, d) == [object |-> "none", slots |-> d]

\* The blob after r has applied an operation that emitted `events` and left
\* its map as d: setCore and deleteCore write into the object this.data
\* names, clearCore makes this.data name a new one.
Stored(r, events, d) ==
    IF storage.shared # r \/ events = << >> THEN storage
    ELSE IF events[1].name = "clear" THEN [storage EXCEPT !.shared = "none"]
    ELSE [storage EXCEPT !.snapshot = ToBlob(0, d).snapshot]

\* The blob after load() has made this.data of r name the parsed snapshot.
Unshared(r) ==
    IF storage.shared = r THEN [storage EXCEPT !.shared = "none"] ELSE storage

ParseSnapshot(blob) ==
    [k \in Keys |->
        IF \E p \in blob.snapshot : p[1] = k
        THEN (CHOOSE p \in blob.snapshot : p[1] = k)[2]
        ELSE Undefined]

\* load(): what it installs from the blob read, or without one.
Restore(blob) ==
    [ sequenceNumber |-> IF blob = NoBlob THEN 0 ELSE blob.sequenceNumber,
      minimumSequenceNumber |-> 0,
      localOps |-> << >>,
      data |-> IF blob = NoBlob THEN EmptyData ELSE ParseSnapshot(blob),
      events |-> << >>,
      error |-> "none" ]

\* listenForUpdates(): the delta manager, made with the sequence number to
\* start after and the connection to submit on.
listenForUpdates(seq, conn) ==
    [clientId |-> conn.clientId, baseSequenceNumber |-> seq]

\* isLocal(): true while this.connection is unset.
isLocal(r) == connection[r] = NoConnection

\* ---------------------------------------------------------------- steps
Last(act, r, op, uv, seq, res) ==
    [ act |-> act, r |-> r, op |-> op, uv |-> uv, seq |-> seq,
      events |-> res.events, error |-> res.error ]

Init ==
    /\ data = [r \in Replicas |-> EmptyData]
    /\ localOps = [r \in Replicas |-> << >>]
    /\ sequenceNumber = [r \in Replicas |-> 0]
    /\ minimumSequenceNumber = [r \in Replicas |-> 0]
    /\ clientSequenceNumber = [r \in Replicas |-> 0]
    /\ connection = [r \in Replicas |-> NoConnection]
    /\ deltaManager = [r \in Replicas |-> NoDeltaManager]
    /\ services = [r \in Replicas |-> r = Loader]
    /\ collaborativeObjects = [r \in Replicas |-> {}]
    /\ loading = [r \in Replicas |-> IF r = Loader THEN "connecting" ELSE "done"]
    /\ attachPending = [r \in Replicas |-> 0]
    /\ waiting = [r \in Replicas |-> << >>]
    /\ nestedConnection = 0
    /\ stream = << >>
    /\ created = {}
    /\ connects = 0
    /\ calls = 0
    /\ storage = NoBlob
    /\ last = Last("init", "none", NoOp, NoUserValue, 0,
                   Result(EmptyData, << >>, "none"))

processLocalOperationNoCount(r, op, uv, objects) ==
    LET message == [ clientSequenceNumber |-> clientSequenceNumber[r],
                     op |-> op,
                     referenceSequenceNumber |-> sequenceNumber[r] ]
        ss == IF connection[r] # NoConnection
              THEN submit(r, objects, SubmitState(r), message, deltaManager[r],
                          "local")
              ELSE SubmitState(r)
        res == processOperation(data[r], op)
    IN /\ clientSequenceNumber' = clientSequenceNumber
       /\ localOps' = [localOps EXCEPT ![r] = Append(@, message)]
       /\ stream' = ss.stream
       /\ waiting' = [waiting EXCEPT ![r] = ss.waiting]
       /\ data' = [data EXCEPT ![r] = res.data]
       /\ storage' = Stored(r, res.events, res.data)
       /\ last' = Last("local", r, op, uv, 0, res)

\* processLocalOperation(op), entered from set, delete or clear.
processLocalOperation(r, op, uv, objects) ==
    LET message == [ clientSequenceNumber |-> clientSequenceNumber[r],
                     op |-> op,
                     referenceSequenceNumber |-> sequenceNumber[r] ]
        ss == IF connection[r] # NoConnection
              THEN submit(r, objects, SubmitState(r), message, deltaManager[r],
                          "local")
              ELSE SubmitState(r)
        res == processOperation(data[r], op)
    IN /\ clientSequenceNumber' = [clientSequenceNumber EXCEPT ![r] = @ + 1]
       /\ localOps' = [localOps EXCEPT ![r] = Append(@, message)]
       /\ stream' = ss.stream
       /\ waiting' = [waiting EXCEPT ![r] = ss.waiting]
       /\ data' = [data EXCEPT ![r] = res.data]
       /\ storage' = Stored(r, res.events, res.data)
       /\ last' = Last("local", r, op, uv, 0, res)

LocalSet(r) ==
    /\ loading[r] = "done"
    /\ calls < MaxCalls
    /\ calls' = calls + 1
    /\ \E in \in SetInputs(r) :
          LET k == in[1]
              uv == in[2]
              objects == IF uv.kind = "object"
                         THEN collaborativeObjects[r] \cup {uv.v}
                         ELSE collaborativeObjects[r]
          IN /\ collaborativeObjects' = [collaborativeObjects EXCEPT ![r] = objects]
             /\ processLocalOperation(r, SetOp(k, OperationValue(uv)), uv, objects)
    /\ UNCHANGED << sequenceNumber, minimumSequenceNumber, connection,
                    deltaManager, services, loading, attachPending,
                    nestedConnection, created, connects >>

LocalDelete(r) ==
    /\ loading[r] = "done"
    /\ calls < MaxCalls
    /\ calls' = calls + 1
    /\ \E k \in DeleteInputs(r) : processLocalOperation(r, DeleteOp(k), NoUserValue,
                                           collaborativeObjects[r])
    /\ UNCHANGED << sequenceNumber, minimumSequenceNumber, connection,
                    deltaManager, services, collaborativeObjects, loading,
                    attachPending, nestedConnection, created, connects >>

LocalClear(r) ==
    /\ loading[r] = "done"
    /\ calls < MaxCalls
    /\ calls' = calls + 1
    /\ processLocalOperation(r, ClearOp, NoUserValue, collaborativeObjects[r])
    /\ UNCHANGED << sequenceNumber, minimumSequenceNumber, connection,
                    deltaManager, services, collaborativeObjects, loading,
                    attachPending, nestedConnection, created, connects >>

\* deltaNotificationService.connect(id, type): a new connection with a client
\* id of its own; the first connect to an id creates the object.
Connect(id) == [clientId |-> connects + 1, existing |-> id \in created]

\* attach(), up to the await of connect.
AttachCall(r) ==
    /\ calls < MaxCalls
    /\ calls' = calls + 1
    /\ services' = [services EXCEPT ![r] = TRUE]
    /\ attachPending' = [attachPending EXCEPT ![r] = @ + 1]
    /\ last' = Last("attach", r, NoOp, NoUserValue, 0,
                    Result(data[r], << >>, "none"))
    /\ UNCHANGED << data, localOps, sequenceNumber, minimumSequenceNumber,
                    clientSequenceNumber, connection, deltaManager,
                    collaborativeObjects, loading, waiting, nestedConnection,
                    stream, created, connects, storage >>

\* attach(), from the resolution of connect to its end.
AttachConnected(r) ==
    /\ attachPending[r] > 0
    /\ attachPending' = [attachPending EXCEPT ![r] = @ - 1]
    /\ LET conn == Connect(MapId)
           dm == listenForUpdates(sequenceNumber[r], conn)
           ss == submitAll(r, SubmitState(r), localOps[r], dm)
       IN /\ connection' = [connection EXCEPT ![r] = conn]
          /\ connects' = connects + 1
          /\ created' = created \cup {MapId}
          /\ IF conn.existing
             THEN /\ UNCHANGED << deltaManager, stream, waiting >>
                  /\ last' = Last("attachConnected", r, NoOp, NoUserValue, 0,
                                  Result(data[r], << >>, "AssertionError"))
             ELSE /\ deltaManager' = [deltaManager EXCEPT ![r] = dm]
                  /\ stream' = ss.stream
                  /\ waiting' = [waiting EXCEPT ![r] = ss.waiting]
                  /\ last' = Last("attachConnected", r, NoOp, NoUserValue, 0,
                                  Result(data[r], << >>, "none"))
    /\ UNCHANGED << data, localOps, sequenceNumber, minimumSequenceNumber,
                    clientSequenceNumber, services, collaborativeObjects,
                    loading, nestedConnection, storage, calls >>

\* The nested object's attach(), awaited by the oldest suspended submit():
\* its connect resolves, it ends, and submit() goes on to submitOp.
NestedAttachConnected(r) ==
    /\ waiting[r] # << >>
    /\ LET entry == Head(waiting[r])
           conn == Connect(NestedId)
           connected == nestedConnection + 1
           ss == submitOp([SubmitState(r) EXCEPT !.waiting = Tail(@)],
                          deltaManager[r], entry.message, r, entry.via,
                          connected = 0)
       IN /\ nestedConnection' = connected
          /\ created' = created \cup {NestedId}
          /\ IF conn.existing
             THEN /\ waiting' = [waiting EXCEPT ![r] = Tail(@)]
                  /\ UNCHANGED stream
                  /\ last' = Last("nestedAttach", r, entry.message.op, NoUserValue, 0,
                                  Result(data[r], << >>, "AssertionError"))
             ELSE /\ waiting' = [waiting EXCEPT ![r] = ss.waiting]
                  /\ stream' = ss.stream
                  /\ last' = Last("nestedAttach", r, entry.message.op, NoUserValue, 0,
                                  Result(data[r], << >>, ss.error))
    /\ UNCHANGED << data, localOps, sequenceNumber, minimumSequenceNumber,
                    clientSequenceNumber, connection, deltaManager, services,
                    collaborativeObjects, loading, attachPending, connects,
                    storage, calls >>

\* load(), from the resolution of connect to the await of read, or to its
\* end when the object did not exist.
LoadConnected(r) ==
    /\ loading[r] = "connecting"
    /\ LET conn == Connect(MapId)
       IN /\ connection' = [connection EXCEPT ![r] = conn]
          /\ connects' = connects + 1
          /\ created' = created \cup {MapId}
          /\ IF conn.existing
             THEN /\ loading' = [loading EXCEPT ![r] = "reading"]
                  /\ UNCHANGED << data, sequenceNumber, deltaManager, storage >>
             ELSE /\ loading' = [loading EXCEPT ![r] = "done"]
                  /\ data' = [data EXCEPT ![r] = EmptyData]
                  /\ storage' = Unshared(r)
                  /\ sequenceNumber' = [sequenceNumber EXCEPT ![r] = 0]
                  /\ deltaManager' = [deltaManager EXCEPT ![r] =
                                         listenForUpdates(0, conn)]
    /\ last' = Last("load", r, NoOp, NoUserValue, 0,
                    Result(data[r], << >>, "none"))
    /\ UNCHANGED << localOps, minimumSequenceNumber, clientSequenceNumber,
                    services, collaborativeObjects, attachPending, waiting,
                    nestedConnection, stream, calls >>

\* load(), from the resolution of read to its end.
LoadRead(r) ==
    /\ loading[r] = "reading"
    /\ loading' = [loading EXCEPT ![r] = "done"]
    /\ LET e == Restore(storage)
       IN /\ data' = [data EXCEPT ![r] = e.data]
          /\ storage' = Unshared(r)
          /\ sequenceNumber' = [sequenceNumber EXCEPT ![r] = e.sequenceNumber]
          /\ deltaManager' = [deltaManager EXCEPT ![r] =
                                 listenForUpdates(e.sequenceNumber, connection[r])]
    /\ last' = Last("load", r, NoOp, NoUserValue, 0,
                    Result(data[r], << >>, "none"))
    /\ UNCHANGED << localOps, minimumSequenceNumber, clientSequenceNumber,
                    connection, services, collaborativeObjects, attachPending,
                    waiting, nestedConnection, stream, created, connects,
                    calls >>

\* snapshot()
Snapshot(r) ==
    /\ calls < MaxCalls
    /\ calls' = calls + 1
    /\ IF services[r]
       THEN /\ LET copy == clone(r, data[r])
               IN storage' = [ToBlob(sequenceNumber[r], copy.slots)
                                 EXCEPT !.shared = copy.object]
            /\ last' = Last("snapshot", r, NoOp, NoUserValue, 0,
                            Result(data[r], << >>, "none"))
       ELSE /\ UNCHANGED storage
            /\ last' = Last("snapshot", r, NoOp, NoUserValue, 0,
                            Result(data[r], << >>, "TypeError"))
    /\ UNCHANGED << data, localOps, sequenceNumber, minimumSequenceNumber,
                    clientSequenceNumber, connection, deltaManager, services,
                    collaborativeObjects, loading, attachPending, waiting,
                    nestedConnection, stream, created, connects >>

Engine(r) ==
    [ sequenceNumber |-> sequenceNumber[r],
      minimumSequenceNumber |-> minimumSequenceNumber[r],
      localOps |-> localOps[r],
      data |-> data[r],
      events |-> << >>,
      error |-> "none" ]

processRemoteOperationShift(clientId, e, message) ==
    IF message.clientId = clientId
    THEN IF Len(e.localOps) > 0
         THEN [e EXCEPT !.localOps = Tail(@)]
         ELSE e
    ELSE LET res == processOperation(e.data, message.op)
         IN [e EXCEPT !.data = res.data, !.events = res.events,
                      !.error = res.error]

processRemoteOperation(clientId, e, message) ==
    IF message.clientId = clientId
    THEN IF Len(e.localOps) > 0
            /\ e.localOps[1].clientSequenceNumber = message.clientSequenceNumber
         THEN [e EXCEPT !.localOps = Tail(@)]
         ELSE e
    ELSE LET res == processOperation(e.data, message.op)
         IN [e EXCEPT !.data = res.data, !.events = res.events,
                      !.error = res.error]

processRemoteMessageNoAssert(clientId, e, message) ==
    LET e2 == [e EXCEPT !.sequenceNumber = message.sequenceNumber,
                        !.minimumSequenceNumber = message.minimumSequenceNumber]
    IN IF message.type = OperationType
       THEN processRemoteOperation(clientId, e2, message)
       ELSE e2

processRemoteMessageNoKind(clientId, e, message) ==
    IF e.sequenceNumber + 1 # message.sequenceNumber
    THEN [e EXCEPT !.error = "SequenceGap"]
    ELSE LET e2 == [e EXCEPT !.sequenceNumber = message.sequenceNumber,
                             !.minimumSequenceNumber = message.minimumSequenceNumber]
         IN processRemoteOperation(clientId, e2, message)

processRemoteMessage(clientId, e, message) ==
    IF e.sequenceNumber + 1 # message.sequenceNumber
    THEN [e EXCEPT !.error = "SequenceGap"]
    ELSE LET e2 == [e EXCEPT !.sequenceNumber = message.sequenceNumber,
                             !.minimumSequenceNumber = message.minimumSequenceNumber]
         IN IF message.type = OperationType
            THEN processRemoteOperation(clientId, e2, message)
            ELSE e2

\* The delta manager hands message s of the stream to its op callback.
DeliverAt(r, s) ==
    /\ deltaManager[r] # NoDeltaManager
    /\ s \in 1..Len(stream)
    /\ LET e == processRemoteMessage(connection[r].clientId, Engine(r), stream[s])
       IN /\ sequenceNumber' = [sequenceNumber EXCEPT ![r] = e.sequenceNumber]
          /\ minimumSequenceNumber' =
                [minimumSequenceNumber EXCEPT ![r] = e.minimumSequenceNumber]
          /\ localOps' = [localOps EXCEPT ![r] = e.localOps]
          /\ data' = [data EXCEPT ![r] = e.data]
          /\ storage' = Stored(r, e.events, e.data)
          /\ last' = Last("deliver", r, NoOp, NoUserValue, e.sequenceNumber,
                          Result(e.data, e.events, e.error))
    /\ UNCHANGED << clientSequenceNumber, connection, deltaManager, services,
                    collaborativeObjects, loading, attachPending, waiting,
                    nestedConnection, stream, created, connects, calls >>

Deliver(r) == \E s \in 1..Len(stream) : DeliverAt(r, s)

\* What clients outside the model get sequenced: an operation of a type the
\* map does not know, and a message that is no operation.
ForeignMessages ==
    { [type |-> OperationType, op |-> [NoOp EXCEPT !.type = "bogus"]],
      [type |-> "noop", op |-> NoOp] }

ForeignSubmit ==
    /\ calls < MaxCalls
    /\ calls' = calls + 1
    /\ \E f \in ForeignMessages :
          stream' = Append(stream,
              Sequenced(stream, ForeignClient, f.type,
                        [clientSequenceNumber |-> 0, referenceSequenceNumber |-> 0,
                         op |-> f.op],
                        "foreign", "foreign", nestedConnection = 0))
    /\ UNCHANGED << last, data, localOps, sequenceNumber,
                    minimumSequenceNumber, clientSequenceNumber, connection,
                    deltaManager, services, collaborativeObjects, loading,
                    attachPending, waiting, nestedConnection, created,
                    connects, storage >>

Next ==
    \/ \E r \in Replicas : LocalSet(r)
    \/ \E r \in Replicas : LocalDelete(r)
    \/ \E r \in Replicas : LocalClear(r)
    \/ \E r \in Replicas : AttachCall(r)
    \/ \E r \in Replicas : AttachConnected(r)
    \/ \E r \in Replicas : NestedAttachConnected(r)
    \/ \E r \in Replicas : LoadConnected(r)
    \/ \E r \in Replicas : LoadRead(r)
    \/ \E r \in Replicas : Snapshot(r)
    \/ \E r \in Replicas : Deliver(r)
    \/ ForeignSubmit

Spec == Init /\ [][Next]_vars
\* ------------------------------------------------------------- claims

\* Every message r has issued has reached the sequencer.
AllSequenced(r) ==
    \A c \in 0..(clientSequenceNumber[r] - 1) :
        \E i \in 1..Len(stream) :
            stream[i].origin = r /\ stream[i].clientSequenceNumber = c

\* r is listening on the connection it holds and has processed the whole stream.
CaughtUp(r) ==
    /\ deltaManager[r] # NoDeltaManager
    /\ deltaManager[r].clientId = connection[r].clientId
    /\ sequenceNumber[r] = Len(stream)

Quiescent == \A r \in Replicas : AllSequenced(r) /\ CaughtUp(r)

\* C1: two replicas that started from the same (empty) map, each on its one
\* connection, hold the same map once every issued operation has been
\* sequenced and delivered to both in sequence order.
C1_Convergence ==
    (Quiescent /\ storage = NoBlob) => data["r1"] = data["r2"]

\* C2: the messages of one replica reach the sequencer in the order of their
\* clientSequenceNumber.
C2_SubmissionOrder ==
    \A i, j \in 1..Len(stream) :
        (i < j /\ stream[i].origin \in Replicas
               /\ stream[i].origin = stream[j].origin)
            => stream[i].clientSequenceNumber < stream[j].clientSequenceNumber

\* C3: once the echoes of all the messages a replica enqueued have been
\* delivered to it, its localOps is empty.
C3_AckRetirement ==
    \A r \in Replicas :
        (AllSequenced(r) /\ CaughtUp(r)) => localOps[r] = << >>

\* C4: after a local set, delete or clear has returned, get reads its effect:
\* the value just set, nothing for the deleted key, nothing for any key after
\* a clear.
C4_ReadYourWrites ==
    last.act = "local" =>
        CASE last.op.type = "set" -> Get(last.r, last.op.key) = last.uv
          [] last.op.type = "delete" -> Get(last.r, last.op.key) = NoUserValue
          [] OTHER -> \A k \in Keys : Get(last.r, k) = NoUserValue

\* A replica that has processed inbound messages sets the nested object and
\* reads it back.
C4_Witness ==
    /\ last.act = "local"
    /\ last.op.type = "set"
    /\ last.uv.kind = "object"
    /\ sequenceNumber[last.r] > 0
    /\ Get(last.r, last.op.key) = last.uv

IsReferenceSet(m) ==
    m.type = OperationType /\ m.op.type = "set" /\ m.op.value.type = "Collaborative"

\* C5: whenever a set that stores a reference to the nested object is handed
\* to the transport, the nested object is no longer local.
C5_AttachBeforeSubmit ==
    \A i \in 1..Len(stream) : IsReferenceSet(stream[i]) => ~stream[i].nestedLocal

\* One reference set was drained from the log by attach(), another was issued
\* while attached, and both have been submitted.
C5_Witness ==
    /\ \E i \in 1..Len(stream) : IsReferenceSet(stream[i]) /\ stream[i].via = "attach"
    /\ \E i \in 1..Len(stream) : IsReferenceSet(stream[i]) /\ stream[i].via = "local"

\* A new replica processes the messages of the stream from number `from` on.
RECURSIVE ApplyStream(_, _, _)
ApplyStream(clientId, e, from) ==
    IF from > Len(stream) THEN e
    ELSE ApplyStream(clientId,
                     processRemoteMessage(clientId, e, stream[from]),
                     from + 1)

\* C6: the blob snapshot() writes on a replica, loaded by a new replica that
\* then processes the stream after the blob's sequence number, gives the map
\* that processing the whole stream from an empty map gives (every issued
\* operation being sequenced).
C6_SnapshotRoundTrip ==
    \A r \in Replicas :
        (services[r] /\ loading[r] = "done" /\ \A q \in Replicas : AllSequenced(q))
            => LET blob == ToBlob(sequenceNumber[r], data[r])
               IN ApplyStream(connects + 1, Restore(blob), blob.sequenceNumber + 1).data
                  = ApplyStream(connects + 1, Restore(NoBlob), 1).data

\* What an operation shows once applied to the map d.
Reflects(op, d) ==
    CASE op.type = "set" -> d[op.key] = op.value
      [] op.type = "delete" -> d[op.key] = Undefined
      [] op.type = "clear" -> d = EmptyData
      [] OTHER -> TRUE

ExpectedEvents(op, d) ==
    CASE op.type \in {"set", "delete"} -> << Event("valueChanged", op.key, d) >>
      [] op.type = "clear" -> << Event("clear", NoKey, d) >>
      [] OTHER -> << >>

\* C7: a set or delete emits one valueChanged for its key and a clear one
\* clear, on the issuing replica when issued and on every other replica when
\* delivered; the echo of a replica's own operation emits nothing; and the
\* map already shows the operation when the event is emitted.
C7_Events ==
    /\ last.act = "local" =>
          /\ last.events = ExpectedEvents(last.op, data[last.r])
          /\ Reflects(last.op, data[last.r])
    /\ (last.act = "deliver" /\ last.error = "none") =>
          LET m == stream[last.seq]
          IN IF m.type # OperationType \/ m.origin = last.r
             THEN last.events = << >>
             ELSE /\ last.events = ExpectedEvents(m.op, data[last.r])
                  /\ Reflects(m.op, data[last.r])

\* C8: attach() on a replica that holds a connection fails with
\* AlreadyAttached and asks the transport for no connection.
C8_AlreadyAttached ==
    [][\A r \in Replicas :
          (AttachCall(r) /\ connection[r] # NoConnection)
              => (last'.error = "AlreadyAttached"
                  /\ attachPending'[r] = attachPending[r])]_vars

\* C9: in every reachable state, handing a replica any message of the stream
\* is processed exactly when the message's sequence number is the replica's
\* plus one, and then becomes the replica's sequence number; any other raises
\* SequenceGap and leaves sequence number and map as they were.  A delivery
\* that was processed has left the replica at the sequence number it carried.
C9_SequenceAdjacency ==
    \A r \in Replicas :
        /\ deltaManager[r] # NoDeltaManager =>
              \A s \in 1..Len(stream) :
                  LET e == processRemoteMessage(connection[r].clientId,
                                                Engine(r), stream[s])
                  IN IF s = sequenceNumber[r] + 1
                     THEN e.error # "SequenceGap" /\ e.sequenceNumber = s
                     ELSE /\ e.error = "SequenceGap"
                          /\ e.sequenceNumber = sequenceNumber[r]
                          /\ e.data = data[r]
        /\ (last.act = "deliver" /\ last.r = r /\ last.error # "SequenceGap")
              => (last.seq = sequenceNumber[r] /\ last.seq \in 1..Len(stream))

\* The loaded replica, restored from a snapshot at S >= 1, is handed as its
\* first message one that is not S + 1.
C9_Witness ==
    /\ last.act = "deliver"
    /\ last.r = Loader
    /\ last.error = "SequenceGap"
    /\ deltaManager[Loader].baseSequenceNumber >= 1
    /\ sequenceNumber[Loader] = deltaManager[Loader].baseSequenceNumber

Fatal == {"SequenceGap", "UnknownOperation"}

\* C10: once an inbound message has raised SequenceGap or UnknownOperation on
\* a replica, the next set, delete, clear or inbound delivery on it fails.
C10_Halted ==
    [][\A r \in Replicas :
          ( /\ last.act = "deliver" /\ last.r = r /\ last.error \in Fatal
            /\ last'.r = r
            /\ (LocalSet(r) \/ LocalDelete(r) \/ LocalClear(r) \/ Deliver(r)) )
              => last'.error # "none"]_vars

\* C11: isLocal() is false on the loaded replica in every state, its load in
\* progress included; on the created replica it is true as long as attach()
\* has not been called and false once an attach has succeeded.
C11_IsLocal ==
    /\ ~isLocal(Loader)
    /\ ~services[Creator] => isLocal(Creator)
    /\ deltaManager[Creator] # NoDeltaManager => ~isLocal(Creator)

\* C12: a set, delete or clear has acted, and a snapshot has written its
\* blob, only on a replica whose initial load has completed.
C12_LoadGating ==
    /\ last.act = "local" => loading[last.r] = "done"
    /\ (last.act = "snapshot" /\ last.error = "none") => loading[last.r] = "done"

BlobContents(b) == [sequenceNumber |-> b.sequenceNumber, snapshot |-> b.snapshot]

\* C13: the contents of the stored blob change only when a snapshot() writes
\* it, and then to the sequence number and the map the replica holds at the
\* call; no set, delete, clear or inbound message changes them.
C13_ValueCopy ==
    [][BlobContents(storage') # BlobContents(storage) =>
          \E r \in Replicas :
              /\ last'.act = "snapshot" /\ last'.r = r /\ last'.error = "none"
              /\ BlobContents(storage')
                    = BlobContents(ToBlob(sequenceNumber[r], data[r]))]_vars

\* The loaded replica, alone with services, has set a key, written the blob
\* and then deleted the key: the blob still holds it.
C13_Witness ==
    /\ ~services[Creator]
    /\ last.act = "local" /\ last.r = Loader /\ last.op = DeleteOp("a")
    /\ data[Loader]["a"] = Undefined
    /\ storage.snapshot = {<< "a", PlainValue("y") >>}

\* C14: applying a delete of a key the map does not hold gives no error, the
\* same map and one valueChanged for the key; a local delete, and a delivered
\* delete of another client, end without error, with the key absent and that
\* one event emitted.
C14_DeleteMissing ==
    /\ \A r \in Replicas : \A k \in Keys :
          data[r][k] = Undefined =>
              processOperation(data[r], DeleteOp(k))
                = Result(data[r], << Event("valueChanged", k, data[r]) >>, "none")
    /\ (last.act = "local" /\ last.op.type = "delete") =>
          /\ last.error = "none"
          /\ data[last.r][last.op.key] = Undefined
          /\ last.events = << Event("valueChanged", last.op.key, data[last.r]) >>
    /\ (last.act = "deliver" /\ last.error # "SequenceGap") =>
          LET m == stream[last.seq]
          IN (m.type = OperationType /\ m.op.type = "delete"
                /\ m.clientId # connection[last.r].clientId) =>
                 /\ last.error = "none"
                 /\ data[last.r][m.op.key] = Undefined
                 /\ last.events = << Event("valueChanged", m.op.key, data[last.r]) >>

\* A replica cleared its map and, before any other message, was delivered
\* the delete another replica had issued concurrently.
C14_Witness ==
    /\ last.act = "deliver" /\ last.error = "none"
    /\ stream[last.seq].op.type = "delete"
    /\ stream[last.seq].origin \in Replicas \ {last.r}
    /\ localOps[last.r] # << >>
    /\ LET c == localOps[last.r][Len(localOps[last.r])]
       IN c.op.type = "clear" /\ c.referenceSequenceNumber = last.seq - 1
    /\ last.events = << Event("valueChanged", stream[last.seq].op.key, EmptyData) >>

\* C15: the next message of the stream, when it is an operation the replica
\* itself issued, is processed without changing the replica's map and
\* without an event: the operation stays applied once, by its local apply.
C15_NoReapply ==
    \A r \in Replicas :
        (deltaManager[r] # NoDeltaManager /\ sequenceNumber[r] < Len(stream)) =>
            LET m == stream[sequenceNumber[r] + 1]
                e == processRemoteMessage(connection[r].clientId, Engine(r), m)
            IN (m.type = OperationType /\ m.origin = r) =>
                   (e.data = data[r] /\ e.events = << >>)

\* C16: no message of a replica that is local is in the stream, and a local
\* operation issued on it is the tail of its log and shows in its map; when
\* a successful attach() ends, every operation issued so far is still in the
\* log; and the messages attach() drained from the log reached the transport
\* in log order.
C16_AttachDrain ==
    /\ \A r \in Replicas :
          isLocal(r) => \A i \in 1..Len(stream) : stream[i].origin # r
    /\ (last.act = "local" /\ isLocal(last.r)) =>
          /\ localOps[last.r] # << >>
          /\ localOps[last.r][Len(localOps[last.r])].op = last.op
          /\ Reflects(last.op, data[last.r])
    /\ (last.act = "attachConnected" /\ last.error = "none") =>
          /\ Len(localOps[last.r]) = clientSequenceNumber[last.r]
          /\ \A i \in 1..Len(localOps[last.r]) :
                localOps[last.r][i].clientSequenceNumber = i - 1
    /\ \A i, j \in 1..Len(stream) :
          ( /\ i < j
            /\ stream[i].via = "attach" /\ stream[j].via = "attach"
            /\ stream[i].origin = stream[j].origin )
              => stream[i].clientSequenceNumber < stream[j].clientSequenceNumber

\* The messages r may be handed next that carry its own client id: the next
\* message of the stream when it does, and an echo of any client sequence
\* number the transport might repeat.
OwnNext(r) ==
    { stream[s] : s \in { q \in 1..Len(stream) :
                            /\ q = sequenceNumber[r] + 1
                            /\ stream[q].type = OperationType
                            /\ stream[q].clientId = connection[r].clientId } }
    \cup
    { Sequenced(SubSeq(stream, 1, sequenceNumber[r]), connection[r].clientId,
                OperationType,
                [clientSequenceNumber |-> c, referenceSequenceNumber |-> 0,
                 op |-> ClearOp],
                r, "local", FALSE) : c \in 0..MaxCalls }

\* C17: a message with the replica's own client id whose client sequence
\* number is not that of the head of the log, or that finds the log empty,
\* is processed without error and without event, leaves log and map as they
\* were and advances the sequence number by one; a delivery of a message
\* with the replica's client id ends without error or event.
C17_DuplicateAck ==
    /\ \A r \in Replicas :
          deltaManager[r] # NoDeltaManager =>
              \A m \in OwnNext(r) :
                  ( \/ localOps[r] = << >>
                    \/ localOps[r][1].clientSequenceNumber # m.clientSequenceNumber )
                      => LET e == processRemoteMessage(connection[r].clientId,
                                                       Engine(r), m)
                         IN /\ e.error = "none"
                            /\ e.events = << >>
                            /\ e.localOps = localOps[r]
                            /\ e.data = data[r]
                            /\ e.sequenceNumber = sequenceNumber[r] + 1
    /\ (last.act = "deliver" /\ last.error # "SequenceGap") =>
          LET m == stream[last.seq]
          IN (m.type = OperationType /\ m.clientId = connection[last.r].clientId)
                => /\ last.error = "none"
                   /\ last.events = << >>
                   /\ sequenceNumber[last.r] = last.seq

\* A replica was delivered the echo of a later operation of its own while an
\* earlier one heads its log: the log keeps its head.
C17_Witness ==
    /\ last.act = "deliver" /\ last.error = "none"
    /\ stream[last.seq].type = OperationType
    /\ stream[last.seq].clientId = connection[last.r].clientId
    /\ localOps[last.r] # << >>
    /\ localOps[last.r][1].clientSequenceNumber
          < stream[last.seq].clientSequenceNumber
    /\ Len(localOps[last.r]) = clientSequenceNumber[last.r]

\* C18: the client sequence numbers of a replica's log increase strictly from
\* head to tail and are all below its next client sequence number, which
\* starts at 0 and is at most the number of calls made; no logged message
\* refers to a sequence number the replica has not reached; and the message a local
\* operation has just logged carries the client sequence number before the
\* next and, as its reference, the replica's sequence number.
C18_LogAndCounter ==
    /\ \A r \in Replicas :
          /\ \A i, j \in 1..Len(localOps[r]) :
                i < j => localOps[r][i].clientSequenceNumber
                           < localOps[r][j].clientSequenceNumber
          /\ \A i \in 1..Len(localOps[r]) :
                /\ localOps[r][i].clientSequenceNumber \in
                      0..(clientSequenceNumber[r] - 1)
                /\ localOps[r][i].referenceSequenceNumber \in 0..sequenceNumber[r]
          /\ clientSequenceNumber[r] \in 0..calls
    /\ last.act = "local" =>
          /\ localOps[last.r] # << >>
          /\ LET m == localOps[last.r][Len(localOps[last.r])]
             IN /\ m.clientSequenceNumber = clientSequenceNumber[last.r] - 1
                /\ m.referenceSequenceNumber = sequenceNumber[last.r]
                /\ m.op = last.op

\* A replica issued an operation after it had processed inbound messages and
\* while an earlier operation of its own was still in its log.
C18_Witness ==
    /\ last.act = "local"
    /\ Len(localOps[last.r]) >= 2
    /\ sequenceNumber[last.r] >= 1
    /\ localOps[last.r][1].referenceSequenceNumber < sequenceNumber[last.r]
    /\ localOps[last.r][Len(localOps[last.r])].referenceSequenceNumber
          = sequenceNumber[last.r]

\* C19: the next message of the stream, when it is no operation, is processed
\* without error and without event, gives the replica its sequence number
\* and minimum sequence number and leaves map and log as they were; a
\* delivery of such a message has left the replica with the message's two
\* numbers.
C19_ControlMessage ==
    /\ \A r \in Replicas :
          (deltaManager[r] # NoDeltaManager /\ sequenceNumber[r] < Len(stream)) =>
              LET m == stream[sequenceNumber[r] + 1]
                  e == processRemoteMessage(connection[r].clientId, Engine(r), m)
              IN m.type # OperationType =>
                     /\ e.error = "none"
                     /\ e.events = << >>
                     /\ e.sequenceNumber = m.sequenceNumber
                     /\ e.minimumSequenceNumber = m.minimumSequenceNumber
                     /\ e.data = data[r]
                     /\ e.localOps = localOps[r]
    /\ (last.act = "deliver" /\ last.error # "SequenceGap") =>
          LET m == stream[last.seq]
          IN m.type # OperationType =>
                 /\ last.error = "none"
                 /\ last.events = << >>
                 /\ sequenceNumber[last.r] = m.sequenceNumber
                 /\ minimumSequenceNumber[last.r] = m.minimumSequenceNumber

\* A replica with a key in its map and an operation in its log was delivered
\* a message that is no operation.
C19_Witness ==
    /\ last.act = "deliver" /\ last.error = "none"
    /\ stream[last.seq].type # OperationType
    /\ sequenceNumber[last.r] = last.seq
    /\ localOps[last.r] # << >>
    /\ data[last.r] # EmptyData

\* attach() calls made on the nested object: those whose connect has
\* resolved and those a suspended submit() is still awaiting.
NestedAttachCalls ==
    nestedConnection + Len(waiting["r1"]) + Len(waiting["r2"])

\* C20: no message of a replica's log is in the stream twice, and attach()
\* has been called on the nested object at most once.
C20_SingleSubmission ==
    /\ \A i, j \in 1..Len(stream) :
          ( /\ i < j
            /\ stream[i].origin \in Replicas
            /\ stream[i].origin = stream[j].origin )
              => stream[i].clientSequenceNumber # stream[j].clientSequenceNumber
    /\ NestedAttachCalls <= 1
====
